---- MODULE Spec2Model ----
(***************************************************************************)
(* komorebidb structs: View, Component, Revision and RevisionDelete, the   *)
(* write compiler that fans a component out into view, body and metadata   *)
(* mutations, and the manifest-driven delete compiler.                     *)
(*                                                                         *)
(* Python values are modelled as follows.                                  *)
(*   str    [t |-> "str",   v |-> <<code points>>]                         *)
(*   bytes  [t |-> "bytes", v |-> <<byte values>>]                         *)
(*   None   [t |-> "None",  v |-> <<>>]                                    *)
(*   an Iterable  [oneshot |-> BOOLEAN, items |-> <<...>>]: a list when    *)
(*          oneshot is FALSE, an iterator/generator (whose items are the   *)
(*          ones not yet produced) when it is TRUE                         *)
(*   an element of a returned list  [type |-> "Mutation" or "list",        *)
(*          val |-> <<the mutation>> or the inner list's mutations]        *)
(*                                                                         *)
(* uuid4() is a supply of pairwise distinct tokens: uuids counts the ones   *)
(* drawn. datetime.now() reads one of ClockReadings. viewArgs and compArgs  *)
(* record the qualifier argument each constructor was given; revCalls and   *)
(* delCalls record what each call of mutations() read and handed back.      *)
(***************************************************************************)
EXTENDS Integers, Sequences, FiniteSets, TLC

VARIABLES uuids, viewPool, viewArgs, compPool, compArgs,
          revs, revCalls, dels, delCalls

vars == <<uuids, viewPool, viewArgs, compPool, compArgs,
          revs, revCalls, dels, delCalls>>

\* ---------------------------------------------------------------- bounds
MaxViews == 2
MaxComps == 2
MaxRevs == 1
MaxCalls == 2
MaxDels == 1
MaxBlobs == 2
MaxDelCalls == 1

\* ---------------------------------------------------------------- values
Str(cps) == [t |-> "str", v |-> cps]
Bytes(bs) == [t |-> "bytes", v |-> bs]
None == [t |-> "None", v |-> <<>>]

RECURSIVE Flatten(_)
Flatten(ss) == IF ss = <<>> THEN <<>> ELSE Head(ss) \o Flatten(Tail(ss))

\* str.encode(): UTF-8 of a sequence of code points (below U+0800).
Utf8Char(cp) == IF cp < 128 THEN <<cp>>
                ELSE <<192 + (cp \div 64), 128 + (cp % 64)>>
Utf8(cps) == Flatten([i \in 1..Len(cps) |-> Utf8Char(cps[i])])

\* '_meta\x00'
METADATA_COMPONENT_PREFIX == Str(<<95, 109, 101, 116, 97, 0>>)
METADATA_COMPONENT_PREFIX_BYTES == Bytes(Utf8(METADATA_COMPONENT_PREFIX.v))

\* accumulo.core.structs.encode: text is encoded, bytes pass through.
encode(x) == IF x.t = "str" THEN Utf8(x.v) ELSE x.v

\* str + str
StrConcat(a, b) == Str(a.v \o b.v)

\* A datetime is held as microseconds since the epoch, below 2^31 in size.
\* int(dt.timestamp() * 1000) is computed in double precision: timestamp()
\* is the double nearest to us / 10^6, the product is rounded again and int()
\* truncates toward zero. Off a whole millisecond the two roundings cannot
\* reach the next integer. On a whole millisecond m the quotient m / 1000
\* is rounded at 2^-k; rem is what the rounding cuts off, in units of
\* 2^-k / 1000. When it is cut off (rem < 500) and more than half a step of
\* the doubles below m (rem > 256, where m / 1000 has nine binary places
\* fewer than m, or m is a power of two) the product lands below m.
RECURSIVE Log2(_)
Log2(n) == IF n < 2 THEN 0 ELSE 1 + Log2(n \div 2)
RECURSIVE Pow2(_)
Pow2(e) == IF e = 0 THEN 1 ELSE 2 * Pow2(e - 1)
RECURSIVE Pow2Mod1000(_)
Pow2Mod1000(k) == IF k = 0 THEN 1 ELSE (2 * Pow2Mod1000(k - 1)) % 1000

MsOfMicros(us) ==
    LET m == us \div 1000
        e == Log2(m)
        nine == m * 64 >= 125 * Pow2(e)
        k == IF nine THEN 61 - e ELSE 62 - e
        rem == ((m % 1000) * Pow2Mod1000(k)) % 1000
    IN  IF us % 1000 # 0 \/ m = 0 THEN m
        ELSE IF rem > 256 /\ rem < 500 /\ (nine \/ m = Pow2(e)) THEN m - 1
        ELSE m

datetime_to_timestamp_ms(dt) ==
    IF dt < 0 THEN 0 - MsOfMicros(0 - dt) ELSE MsOfMicros(dt)

\* uuid4().hex for the n-th token drawn: 32 hex digits, version nibble 4.
uuid4_hex(n) == Str([i \in 1..32 |-> IF i = 13 THEN 52
                                    ELSE IF i = 32 THEN 48 + n ELSE 48])

\* ------------------------------------------------------------- Mutation
\* accumulo.Mutation: the four key parts are normalised to bytes; a delete
\* marker carries the delete flag and no value.
Mutation(row, cf, cq, visibility, timestamp, value, delete) ==
    [row_bytes |-> encode(row), cf_bytes |-> encode(cf),
     cq_bytes |-> encode(cq), visibility_bytes |-> encode(visibility),
     timestamp |-> timestamp,
     value |-> IF delete THEN None ELSE Bytes(encode(value)),
     delete |-> delete]

\* ------------------------------------------------- key-set manifest codec
\* komorebi_pb2.Key(row=, cf=, cq=, visibility=)
pb_Key(row, cf, cq, visibility) ==
    [row |-> row, cf |-> cf, cq |-> cq, visibility |-> visibility]

Varint(n) == IF n < 128 THEN <<n>> ELSE <<128 + (n % 128), n \div 128>>

\* One length-delimited field; a bytes field holding b'' is not written.
LenDelim(tag, payload) == <<tag>> \o Varint(Len(payload)) \o payload
BytesField(tag, payload) ==
    IF payload = <<>> THEN <<>> ELSE LenDelim(tag, payload)

SerializeKey(k) == BytesField(10, k.row) \o BytesField(18, k.cf)
                   \o BytesField(26, k.cq) \o BytesField(34, k.visibility)

\* KeySet(keys=keys).SerializeToString()
SerializeToString(keys) ==
    Flatten([i \in 1..Len(keys) |-> LenDelim(10, SerializeKey(keys[i]))])

\* The fields of a message, or failure when a field runs past the end of
\* the input. Only length-delimited fields occur in this schema.
RECURSIVE ParseFields(_)
ParseFields(b) ==
    IF b = <<>> THEN [ok |-> TRUE, fields |-> <<>>]
    ELSE IF Head(b) % 8 # 2 \/ Len(b) < 2 THEN [ok |-> FALSE, fields |-> <<>>]
    ELSE LET two == b[2] >= 128
             hdr == IF two THEN 3 ELSE 2
         IN  IF Len(b) < hdr THEN [ok |-> FALSE, fields |-> <<>>]
             ELSE LET n == IF two THEN (b[2] - 128) + 128 * b[3] ELSE b[2]
                  IN  IF Len(b) < hdr + n THEN [ok |-> FALSE, fields |-> <<>>]
                      ELSE LET rest == ParseFields(SubSeq(b, hdr + n + 1, Len(b)))
                           IN  [ok |-> rest.ok,
                                fields |-> <<[tag |-> Head(b),
                                              payload |-> SubSeq(b, hdr + 1, hdr + n)]>>
                                           \o rest.fields]

\* The last occurrence of a field wins; an absent field reads as b''.
RECURSIVE FieldValue(_, _)
FieldValue(fields, tag) ==
    IF fields = <<>> THEN <<>>
    ELSE LET last == fields[Len(fields)]
         IN  IF last.tag = tag THEN last.payload
             ELSE FieldValue(SubSeq(fields, 1, Len(fields) - 1), tag)

ParseKey(payload) ==
    LET p == ParseFields(payload)
    IN  [ok |-> p.ok,
         key |-> pb_Key(FieldValue(p.fields, 10), FieldValue(p.fields, 18),
                        FieldValue(p.fields, 26), FieldValue(p.fields, 34))]

SelectTag(fields, tag) == SelectSeq(fields, LAMBDA f : f.tag = tag)

\* KeySet.ParseFromString: the repeated field 1 in order; fields of other
\* numbers are skipped. ok = FALSE stands for the raised DecodeError.
ParseFromString(b) ==
    LET p == ParseFields(b)
        ks == SelectTag(p.fields, 10)
        parsed == [i \in 1..Len(ks) |-> ParseKey(ks[i].payload)]
    IN  IF p.ok /\ \A i \in 1..Len(ks) : parsed[i].ok
        THEN [ok |-> TRUE, keys |-> [i \in 1..Len(ks) |-> parsed[i].key]]
        ELSE [ok |-> FALSE, keys |-> <<>>]

deserialize_pb_encoded_key_set(pb_encoded_key_set) ==
    ParseFromString(pb_encoded_key_set)

\* ------------------------------------------------------- Python objects
PyInt(n) == [t |-> "int", v |-> <<n>>]

PyNone == [type |-> "NoneType", val |-> <<>>]
PyList(xs) == [type |-> "list", val |-> xs]
PyMutation(m) == [type |-> "Mutation", val |-> <<m>>]

\* The mutations of a returned value, inner lists opened.
RECURSIVE MutationsIn(_)
MutationsIn(elems) ==
    IF elems = <<>> THEN <<>>
    ELSE LET e == Head(elems)
         IN  (IF e.type = "Mutation" THEN e.val
              ELSE IF e.type = "list" THEN MutationsIn(e.val)
              ELSE <<>>)
             \o MutationsIn(Tail(elems))

Return(value) == [kind |-> "return", value |-> value, error |-> ""]
Raise(error) == [kind |-> "raise", value |-> PyNone, error |-> error]

ListOf(items) == [oneshot |-> FALSE, items |-> items]
IterOf(items) == [oneshot |-> TRUE, items |-> items]
\* What a for loop over the iterable sees, and the iterable afterwards.
Iterate(it) == it.items
Consume(it) == IF it.oneshot THEN [it EXCEPT !.items = <<>>] ELSE it

\* ---------------------------------------------------------------- View
\* The default token drawn once, when the function is defined.
View_init_shared_default(lookup_term, qualifier, visibility, value, family, n) ==
    [lookup_term |-> lookup_term,
     qualifier |-> IF qualifier = None THEN uuid4_hex(0) ELSE qualifier,
     visibility |-> visibility,
     family |-> family,
     value |-> value]

\* n is the number of the token uuid4() returns if it is called.
View_init(lookup_term, qualifier, visibility, value, family, n) ==
    [lookup_term |-> lookup_term,
     qualifier |-> IF qualifier = None THEN uuid4_hex(n) ELSE qualifier,
     visibility |-> visibility,
     family |-> family,
     value |-> value]

\* ----------------------------------------------------------- Component
Component_init(doc_id, component_type, qualifier, visibility, content, views, n) ==
    [doc_id |-> doc_id,
     component_type |-> component_type,
     qualifier |-> IF qualifier = None THEN uuid4_hex(n) ELSE qualifier,
     visibility |-> visibility,
     content |-> content,
     views |-> IF views = None THEN ListOf(<<>>) ELSE views]

\* -------------------------------------------------------- RevisionBase
RevisionBase_init(timestamp_ms, now) ==
    IF timestamp_ms = None THEN datetime_to_timestamp_ms(now)
    ELSE timestamp_ms.v[1]

\* ------------------------------------------------------------ Revision
Revision_init(components, timestamp_ms, now) ==
    [timestamp_ms |-> RevisionBase_init(timestamp_ms, now),
     components |-> components]

ComponentMutation(component, timestamp_ms) ==
    Mutation(component.doc_id, component.component_type, component.qualifier,
             component.visibility, timestamp_ms, component.content, FALSE)

\* A view stamped with a clock reading of its own.
ViewMutation_restamped(view, timestamp_ms) ==
    Mutation(view.lookup_term, view.family, view.qualifier, view.visibility,
             datetime_to_timestamp_ms(2900), view.value, FALSE)

ViewMutation(view, timestamp_ms) ==
    Mutation(view.lookup_term, view.family, view.qualifier, view.visibility,
             timestamp_ms, view.value, FALSE)

\* The metadata descriptor built from the data family.
ViewKeys_unprefixed(view_mutations, component_mutation) ==
    [i \in 1..Len(view_mutations) |->
        pb_Key(view_mutations[i].row_bytes, view_mutations[i].cf_bytes,
               view_mutations[i].cq_bytes, view_mutations[i].visibility_bytes)]
    \o <<pb_Key(component_mutation.row_bytes, component_mutation.cf_bytes,
                component_mutation.cq_bytes, component_mutation.visibility_bytes),
         pb_Key(component_mutation.row_bytes, component_mutation.cf_bytes,
                component_mutation.cq_bytes, component_mutation.visibility_bytes)>>

\* view_keys after the extend: one key per view mutation, then the key of
\* the component record and the key of the component metadata record.
ViewKeys(view_mutations, component_mutation) ==
    [i \in 1..Len(view_mutations) |->
        pb_Key(view_mutations[i].row_bytes, view_mutations[i].cf_bytes,
               view_mutations[i].cq_bytes, view_mutations[i].visibility_bytes)]
    \o <<pb_Key(component_mutation.row_bytes, component_mutation.cf_bytes,
                component_mutation.cq_bytes, component_mutation.visibility_bytes),
         pb_Key(component_mutation.row_bytes,
                METADATA_COMPONENT_PREFIX_BYTES.v \o component_mutation.cf_bytes,
                component_mutation.cq_bytes, component_mutation.visibility_bytes)>>

\* component_metadata_mutation is a one-element list holding the mutation.
ComponentMetadataMutation(component, timestamp_ms, view_key_set_pb_encoded) ==
    PyList(<<PyMutation(
        Mutation(component.doc_id,
                 StrConcat(METADATA_COMPONENT_PREFIX, component.component_type),
                 component.qualifier, component.visibility, timestamp_ms,
                 Bytes(view_key_set_pb_encoded), FALSE))>>)

\* view_keys kept across the passes of the loop: it still holds the keys of
\* the components before this one.
LoopBody_shared_keys(mutations, component, timestamp_ms) ==
    LET component_mutation == ComponentMutation(component, timestamp_ms)
        views == Iterate(component.views)
        view_mutations == [i \in 1..Len(views) |-> ViewMutation(views[i], timestamp_ms)]
        earlier == MutationsIn(mutations)
        view_keys == [i \in 1..Len(earlier) |->
                        pb_Key(earlier[i].row_bytes, earlier[i].cf_bytes,
                               earlier[i].cq_bytes, earlier[i].visibility_bytes)]
                     \o ViewKeys(view_mutations, component_mutation)
        view_key_set_pb_encoded == SerializeToString(view_keys)
        component_metadata_mutation ==
            ComponentMetadataMutation(component, timestamp_ms, view_key_set_pb_encoded)
    IN  mutations
        \o [i \in 1..Len(view_mutations) |-> PyMutation(view_mutations[i])]
        \o <<PyMutation(component_mutation), component_metadata_mutation>>

\* One pass of the loop over self.components: `mutations` after the extend.
LoopBody(mutations, component, timestamp_ms) ==
    LET component_mutation == ComponentMutation(component, timestamp_ms)
        views == Iterate(component.views)
        view_mutations == [i \in 1..Len(views) |-> ViewMutation(views[i], timestamp_ms)]
        view_keys == ViewKeys(view_mutations, component_mutation)
        view_key_set_pb_encoded == SerializeToString(view_keys)
        component_metadata_mutation ==
            ComponentMetadataMutation(component, timestamp_ms, view_key_set_pb_encoded)
    IN  mutations
        \o [i \in 1..Len(view_mutations) |-> PyMutation(view_mutations[i])]
        \o <<PyMutation(component_mutation), component_metadata_mutation>>

\* The loop over the component references idxs; heap holds the Component
\* objects, whose views iterables the loop reads.
RECURSIVE RevLoop(_, _, _, _)
RevLoop(timestamp_ms, idxs, mutations, heap) ==
    IF idxs = <<>> THEN [mutations |-> mutations, heap |-> heap]
    ELSE LET c == Head(idxs)
         IN  RevLoop(timestamp_ms, Tail(idxs),
                     LoopBody(mutations, heap[c], timestamp_ms),
                     [heap EXCEPT ![c].views = Consume(@)])

Revision_mutations(self, heap) ==
    LET r == RevLoop(self.timestamp_ms, Iterate(self.components), <<>>, heap)
    IN  [outcome |-> Return(PyList(r.mutations)),
         self |-> [self EXCEPT !.components = Consume(@)],
         heap |-> r.heap]

\* ------------------------------------------------------ RevisionDelete
RevisionDelete_init(pb_encoded_key_sets, timestamp_ms, now) ==
    [timestamp_ms |-> RevisionBase_init(timestamp_ms, now),
     pb_encoded_key_sets |-> pb_encoded_key_sets]

DeleteMutation(k, timestamp_ms) ==
    Mutation(Bytes(k.row), Bytes(k.cf), Bytes(k.cq), Bytes(k.visibility),
             timestamp_ms, None, TRUE)

\* `for k in key_set`: key_set is the KeySet message itself, not its keys
\* field, and a message cannot be iterated: the loop raises TypeError
\* before it produces a descriptor.
KeySet_iter(key_set) == [raised |-> TRUE, items |-> <<>>]

\* One pass of the loop over self.pb_encoded_key_sets: the blob is read and
\* decoded; a decode failure or the failed iteration leaves the loop with
\* the exception raised and delete_mutations as it was.
DelLoopBody(acc, pb_encoded_key_set, timestamp_ms) ==
    LET key_set == deserialize_pb_encoded_key_set(pb_encoded_key_set)
        ks == KeySet_iter(key_set)
    IN  IF ~key_set.ok
        THEN [acc EXCEPT !.raised = TRUE, !.error = "MalformedManifest",
                         !.read = @ + 1]
        ELSE IF ks.raised
        THEN [acc EXCEPT !.raised = TRUE, !.error = "TypeError", !.read = @ + 1]
        ELSE [acc EXCEPT !.read = @ + 1,
                         !.delete_mutations = @
                  \o [i \in 1..Len(ks.items) |->
                        PyMutation(DeleteMutation(ks.items[i], timestamp_ms))]]

\* The loop stops at the first pass that raises; later blobs are not read.
RECURSIVE DelLoop(_, _, _)
DelLoop(timestamp_ms, blobs, acc) ==
    IF blobs = <<>> \/ acc.raised THEN acc
    ELSE DelLoop(timestamp_ms, Tail(blobs), DelLoopBody(acc, Head(blobs), timestamp_ms))

\* The iterable after a loop that read its first n items.
ConsumeN(it, n) ==
    IF it.oneshot THEN [it EXCEPT !.items = SubSeq(@, n + 1, Len(@))] ELSE it

\* The method ends after the loop without a return statement: the list it
\* built is dropped and the caller receives None.
RevisionDelete_mutations(self) ==
    LET r == DelLoop(self.timestamp_ms, Iterate(self.pb_encoded_key_sets),
                     [raised |-> FALSE, error |-> "", read |-> 0,
                      delete_mutations |-> <<>>])
    IN  [outcome |-> IF r.raised THEN Raise(r.error) ELSE Return(PyNone),
         delete_mutations |-> r.delete_mutations,
         self |-> [self EXCEPT !.pb_encoded_key_sets = ConsumeN(@, r.read)]]

\* ------------------------------------------------------- caller inputs
\* 'é' (two bytes in UTF-8), '' and None, 'f', 'd', 't' and '_meta\x00t'.
LookupTerms == {Str(<<233>>)}
Qualifiers == {None, Str(<<>>)}
Families == {Str(<<102>>)}
DocIds == {Str(<<100>>)}
ComponentTypes == {Str(<<116>>), StrConcat(METADATA_COMPONENT_PREFIX, Str(<<116>>))}
Timestamps == {None, PyInt(7)}
DeleteTimestamps == {PyInt(9)}
\* What datetime.now() may read when a revision is built, in microseconds.
ClockReadings == {1500, 1001000}

Prefix(s, k) == SubSeq(s, 1, k)
Indices(n) == [i \in 1..n |-> i]

\* views=None, or a list or an iterator over the views built so far.
ViewsArgs ==
    IF viewPool = <<>> THEN {None}
    ELSE {None, ListOf(viewPool), IterOf(viewPool)}

\* A list or an iterator over the components built so far.
ComponentsArgs ==
    IF compPool = <<>> THEN {ListOf(<<>>)}
    ELSE {ListOf(Indices(Len(compPool))), IterOf(Indices(Len(compPool)))}

\* The manifests one call of Revision.mutations() wrote, in order: the
\* values of the metadata mutations it returned.
MetadataElems(call) == SelectSeq(call.outcome.value.val, LAMBDA e : e.type = "list")
ManifestsOf(call) ==
    [i \in 1..Len(MetadataElems(call)) |->
        MetadataElems(call)[i].val[1].val[1].value.v]

\* A stored blob that lost its last byte.
Truncate(blob) == SubSeq(blob, 1, Len(blob) - 1)

Min(a, b) == IF a < b THEN a ELSE b

\* The first manifests read back from the latest write of a revision,
\* intact or with the last one truncated.
BlobsFrom(ms) ==
    {Prefix(ms, j) : j \in 0..Min(Len(ms), MaxBlobs)}
    \cup {[Prefix(ms, j) EXCEPT ![j] = Truncate(@)] :
            j \in 1..Min(Len(ms), MaxBlobs)}

Last(s) == s[Len(s)]

\* What a caller passes to RevisionDelete: a list or an iterator of them.
BlobsArgs ==
    LET blobs == UNION {BlobsFrom(ManifestsOf(Last(revCalls[r]))) :
                           r \in {q \in 1..Len(revCalls) : revCalls[q] # <<>>}}
    IN  {ListOf(b) : b \in blobs} \cup {IterOf(b) : b \in blobs}

\* ---------------------------------------------------------------- state
Init ==
    /\ uuids = 0
    /\ viewPool = <<>>
    /\ viewArgs = <<>>
    /\ compPool = <<>>
    /\ compArgs = <<>>
    /\ revs = <<>>
    /\ revCalls = <<>>
    /\ dels = <<>>
    /\ delCalls = <<>>

\* The caller builds its views, then its components, then its revisions: a
\* component lists views that exist and a revision components that exist,
\* so any other order gives the same objects up to the numbering of tokens.

\* View(lookup_term, qualifier, family=family)
NewView ==
    /\ Len(viewPool) < MaxViews
    /\ compPool = <<>>
    /\ \E lookup_term \in LookupTerms, qualifier \in Qualifiers, family \in Families :
        /\ viewPool' = Append(viewPool,
               View_init(lookup_term, qualifier, Str(<<>>), Bytes(<<>>), family, uuids + 1))
        /\ viewArgs' = Append(viewArgs, qualifier)
        /\ uuids' = IF qualifier = None THEN uuids + 1 ELSE uuids
    /\ UNCHANGED <<compPool, compArgs, revs, revCalls, dels, delCalls>>

\* Component(doc_id, component_type, qualifier, views=views)
NewComponent ==
    /\ Len(compPool) < MaxComps
    /\ revs = <<>>
    /\ \E doc_id \in DocIds, component_type \in ComponentTypes,
          qualifier \in Qualifiers, views \in ViewsArgs :
        /\ compPool' = Append(compPool,
               Component_init(doc_id, component_type, qualifier, Str(<<>>),
                              Bytes(<<>>), views, uuids + 1))
        /\ compArgs' = Append(compArgs, qualifier)
        /\ uuids' = IF qualifier = None THEN uuids + 1 ELSE uuids
    /\ UNCHANGED <<viewPool, viewArgs, revs, revCalls, dels, delCalls>>

\* Revision(components, timestamp_ms)
NewRevision ==
    /\ Len(revs) < MaxRevs
    /\ \E components \in ComponentsArgs, timestamp_ms \in Timestamps, now \in ClockReadings :
        revs' = Append(revs, Revision_init(components, timestamp_ms, now))
    /\ revCalls' = Append(revCalls, <<>>)
    /\ UNCHANGED <<uuids, viewPool, viewArgs, compPool, compArgs, dels, delCalls>>

\* The Component objects a call of self.mutations() iterates over, as they
\* are when the call begins (no component is listed twice in one revision).
ComponentsRead(self, heap) ==
    [i \in 1..Len(Iterate(self.components)) |-> heap[Iterate(self.components)[i]]]

\* revs[r].mutations(); seen records what the call read.
CallRevisionMutations ==
    \E r \in 1..Len(revs) :
        /\ Len(revCalls[r]) < MaxCalls
        /\ LET res == Revision_mutations(revs[r], compPool)
           IN  /\ revs' = [revs EXCEPT ![r] = res.self]
               /\ compPool' = res.heap
               /\ revCalls' = [revCalls EXCEPT ![r] =
                      Append(@, [outcome |-> res.outcome,
                                 seen |-> ComponentsRead(revs[r], compPool)])]
        /\ UNCHANGED <<uuids, viewPool, viewArgs, compArgs, dels, delCalls>>

\* RevisionDelete(pb_encoded_key_sets, timestamp_ms)
NewRevisionDelete ==
    /\ Len(dels) < MaxDels
    /\ \E pb_encoded_key_sets \in BlobsArgs, timestamp_ms \in DeleteTimestamps,
          now \in ClockReadings :
        dels' = Append(dels, RevisionDelete_init(pb_encoded_key_sets, timestamp_ms, now))
    /\ delCalls' = Append(delCalls, <<>>)
    /\ UNCHANGED <<uuids, viewPool, viewArgs, compPool, compArgs, revs, revCalls>>

\* dels[d].mutations(); input is what the iterable held when the call
\* began and built is the local list the call assembled.
CallRevisionDeleteMutations ==
    \E d \in 1..Len(dels) :
        /\ Len(delCalls[d]) < MaxDelCalls
        /\ LET res == RevisionDelete_mutations(dels[d])
           IN  /\ dels' = [dels EXCEPT ![d] = res.self]
               /\ delCalls' = [delCalls EXCEPT ![d] =
                      Append(@, [outcome |-> res.outcome,
                                 input |-> Iterate(dels[d].pb_encoded_key_sets),
                                 built |-> res.delete_mutations])]
        /\ UNCHANGED <<uuids, viewPool, viewArgs, compPool, compArgs, revs, revCalls>>

Next ==
    \/ NewView
    \/ NewComponent
    \/ NewRevision
    \/ CallRevisionMutations
    \/ NewRevisionDelete
    \/ CallRevisionDeleteMutations

Spec == Init /\ [][Next]_vars

\* ===================================================================
\* Properties
\* ===================================================================
RevisionCalls ==
    {rc \in (1..Len(revCalls)) \X (1..MaxCalls) : rc[2] <= Len(revCalls[rc[1]])}
DeleteCalls ==
    {dc \in (1..Len(delCalls)) \X (1..MaxDelCalls) : dc[2] <= Len(delCalls[dc[1]])}

CallOf(rc) == revCalls[rc[1]][rc[2]]
Elems(call) == call.outcome.value.val
Opened(e) == MutationsIn(<<e>>)

KeyOf(m) == <<m.row_bytes, m.cf_bytes, m.cq_bytes, m.visibility_bytes>>
DescKey(k) == <<k.row, k.cf, k.cq, k.visibility>>
ViewKey(view) == <<encode(view.lookup_term), encode(view.family),
                   encode(view.qualifier), encode(view.visibility)>>
BodyKey(c) == <<encode(c.doc_id), encode(c.component_type),
                encode(c.qualifier), encode(c.visibility)>>
MetaKey(c) == <<encode(c.doc_id),
                encode(StrConcat(METADATA_COMPONENT_PREFIX, c.component_type)),
                encode(c.qualifier), encode(c.visibility)>>

NViews(component) == Len(Iterate(component.views))
\* Number of elements the components before the j-th account for.
RECURSIVE Offset(_, _)
Offset(seen, j) ==
    IF j <= 1 THEN 0 ELSE Offset(seen, j - 1) + NViews(seen[j - 1]) + 2
TotalLen(seen) == Offset(seen, Len(seen) + 1)

\* The call returned a list with k+2 elements per component read.
WellShaped(call) ==
    /\ call.outcome.kind = "return"
    /\ call.outcome.value.type = "list"
    /\ Len(Elems(call)) = TotalLen(call.seen)
    /\ \A i \in 1..Len(Elems(call)) : Len(Opened(Elems(call)[i])) = 1

\* The mutation held by the i-th element of the j-th component's group.
GroupMutation(call, j, i) == Opened(Elems(call)[Offset(call.seen, j) + i])[1]
GroupKeys(call, j) ==
    {KeyOf(GroupMutation(call, j, i)) : i \in 1..(NViews(call.seen[j]) + 2)}
ManifestOf(call, j) ==
    GroupMutation(call, j, NViews(call.seen[j]) + 2).value.v

\* C1: Revision.mutations() returns a flat sequence: per component read, in
\* input order, the k view mutations in view order, then the body mutation,
\* then the metadata mutation, and every element is itself one mutation.
C1_FlatOrderedSequence ==
    \A rc \in RevisionCalls :
        LET call == CallOf(rc)
            seen == call.seen
        IN  /\ WellShaped(call)
            /\ \A i \in 1..Len(Elems(call)) : Elems(call)[i].type = "Mutation"
            /\ \A j \in 1..Len(seen) :
                 LET k == NViews(seen[j])
                 IN  /\ \A i \in 1..k :
                            KeyOf(GroupMutation(call, j, i))
                                = ViewKey(Iterate(seen[j].views)[i])
                     /\ KeyOf(GroupMutation(call, j, k + 1)) = BodyKey(seen[j])
                     /\ KeyOf(GroupMutation(call, j, k + 2)) = MetaKey(seen[j])

\* C3: the value of a component's metadata mutation decodes to exactly k+2
\* descriptors: the keys of the k view mutations in view order, the key of
\* the body mutation, and the key of the metadata mutation itself, which is
\* (doc_id, prefix + component_type, qualifier, visibility).
C3_ManifestCompleteness ==
    \A rc \in RevisionCalls :
        LET call == CallOf(rc)
            seen == call.seen
        IN  /\ WellShaped(call)
            /\ \A j \in 1..Len(seen) :
                 LET k == NViews(seen[j])
                     dec == ParseFromString(ManifestOf(call, j))
                 IN  /\ dec.ok
                     /\ Len(dec.keys) = k + 2
                     /\ \A i \in 1..(k + 2) :
                            DescKey(dec.keys[i]) = KeyOf(GroupMutation(call, j, i))
                     /\ \A i \in 1..k :
                            DescKey(dec.keys[i]) = ViewKey(Iterate(seen[j].views)[i])
                     /\ DescKey(dec.keys[k + 1]) = BodyKey(seen[j])
                     /\ DescKey(dec.keys[k + 2]) = MetaKey(seen[j])

\* A call read a component with two views of different keys.
C3_Witness ==
    \E rc \in RevisionCalls :
        \E j \in 1..Len(CallOf(rc).seen) :
            LET vs == Iterate(CallOf(rc).seen[j].views)
            IN  /\ Len(vs) = 2
                /\ ViewKey(vs[1]) # ViewKey(vs[2])
                /\ Len(ParseFromString(ManifestOf(CallOf(rc), j)).keys) = 4

\* C5: every mutation a Revision returns, inner lists opened, carries the
\* revision's timestamp_ms.
C5_TimestampSharing ==
    \A rc \in RevisionCalls :
        LET ms == MutationsIn(Elems(CallOf(rc)))
        IN  \A i \in 1..Len(ms) : ms[i].timestamp = revs[rc[1]].timestamp_ms

\* A revision whose timestamp was defaulted from the clock, read 1.001 s
\* after the epoch, returned view, body and metadata mutations.
C5_Witness ==
    \E rc \in RevisionCalls :
        /\ CallOf(rc).seen # <<>>
        /\ NViews(CallOf(rc).seen[1]) >= 1
        /\ Len(MutationsIn(Elems(CallOf(rc)))) >= 3
        /\ revs[rc[1]].timestamp_ms = 1000

\* C10: each manifest lists only its own component's keys and has k+2
\* descriptors wherever the component stands in the batch; a component
\* without views yields two mutations and a two-descriptor manifest; a
\* revision without components yields the empty sequence.
C10_ManifestIsolation ==
    \A rc \in RevisionCalls :
        LET call == CallOf(rc)
            seen == call.seen
        IN  /\ WellShaped(call)
            /\ (seen = <<>> => Elems(call) = <<>>)
            /\ \A j \in 1..Len(seen) :
                 LET dec == ParseFromString(ManifestOf(call, j))
                 IN  /\ Len(dec.keys) = NViews(seen[j]) + 2
                     /\ {DescKey(dec.keys[i]) : i \in 1..Len(dec.keys)}
                            = GroupKeys(call, j)
                     /\ (NViews(seen[j]) = 0 =>
                            /\ Cardinality(GroupKeys(call, j)) = 2
                            /\ Len(dec.keys) = 2)

\* A batch of two components, the first with views and the second without,
\* and a call on a revision that had nothing to read.
C10_Witness ==
    /\ \E rc \in RevisionCalls :
        /\ Len(CallOf(rc).seen) = 2
        /\ NViews(CallOf(rc).seen[1]) = 2
        /\ NViews(CallOf(rc).seen[2]) = 0
        /\ Len(Elems(CallOf(rc))) = 6
    /\ \E rc \in RevisionCalls : CallOf(rc).seen = <<>>

DelCallOf(dc) == delCalls[dc[1]][dc[2]]
DelInput(dc) == DelCallOf(dc).input
IllFormed(blob) == ~ParseFromString(blob).ok
\* The mutations a call handed back to its caller.
Returned(outcome) ==
    IF outcome.kind = "return" THEN MutationsIn(<<outcome.value>>) ELSE <<>>
\* The descriptors of the blobs, in input order and decode order.
Descriptors(blobs) ==
    Flatten([i \in 1..Len(blobs) |-> ParseFromString(blobs[i]).keys])

\* C2: a RevisionDelete built from the stored manifest of a written component
\* returns delete markers whose key set is exactly the set of keys the
\* Revision wrote for that component.
C2_DeleteSymmetry ==
    \A rc \in RevisionCalls, dc \in DeleteCalls :
        \A j \in 1..Len(CallOf(rc).seen) :
            (WellShaped(CallOf(rc)) /\ DelInput(dc) = <<ManifestOf(CallOf(rc), j)>>)
            => /\ DelCallOf(dc).outcome.kind = "return"
               /\ DelCallOf(dc).outcome.value.type = "list"
               /\ {KeyOf(Returned(DelCallOf(dc).outcome)[i]) :
                       i \in 1..Len(Returned(DelCallOf(dc).outcome))}
                  = GroupKeys(CallOf(rc), j)

\* C4: RevisionDelete.mutations() returns one delete marker per descriptor of
\* its manifests, in input order and decode order, each with the delete
\* revision's timestamp_ms and the delete flag instead of a value.
C4_DeleteMarkersReturned ==
    \A dc \in DeleteCalls :
        (\A i \in 1..Len(DelInput(dc)) : ~IllFormed(DelInput(dc)[i]))
        => LET out == DelCallOf(dc).outcome
               ds == Descriptors(DelInput(dc))
           IN  /\ out.kind = "return"
               /\ out.value.type = "list"
               /\ Len(out.value.val) = Len(ds)
               /\ \A i \in 1..Len(ds) :
                    /\ out.value.val[i].type = "Mutation"
                    /\ KeyOf(out.value.val[i].val[1]) = DescKey(ds[i])
                    /\ out.value.val[i].val[1].timestamp = dels[dc[1]].timestamp_ms
                    /\ out.value.val[i].val[1].delete
                    /\ out.value.val[i].val[1].value = None

\* C6: when a manifest blob of the input is ill-formed the call fails with
\* MalformedManifest and hands no delete mutation to the caller, those of
\* earlier well-formed manifests included.
C6_MalformedManifestAborts ==
    \A dc \in DeleteCalls :
        (\E i \in 1..Len(DelInput(dc)) : IllFormed(DelInput(dc)[i]))
        => /\ DelCallOf(dc).outcome.kind = "raise"
           /\ DelCallOf(dc).outcome.error = "MalformedManifest"
           /\ Returned(DelCallOf(dc).outcome) = <<>>

\* C7: the key of a metadata mutation never equals the key of a
\* component-body mutation, for any components the constructor accepts.
C7_MetadataNeverCollides ==
    \A rc1 \in RevisionCalls, rc2 \in RevisionCalls :
        \A j1 \in 1..Len(CallOf(rc1).seen), j2 \in 1..Len(CallOf(rc2).seen) :
            (WellShaped(CallOf(rc1)) /\ WellShaped(CallOf(rc2)))
            => KeyOf(GroupMutation(CallOf(rc1), j1, NViews(CallOf(rc1).seen[j1]) + 2))
               # KeyOf(GroupMutation(CallOf(rc2), j2, NViews(CallOf(rc2).seen[j2]) + 1))

\* C8: a qualifier the caller supplies is kept; two Views, and two
\* Components, built without a qualifier never have equal keys.
C8_DefaultQualifierUnique ==
    /\ \A i \in 1..Len(viewPool) :
         viewArgs[i] # None => viewPool[i].qualifier = viewArgs[i]
    /\ \A i \in 1..Len(compPool) :
         compArgs[i] # None => compPool[i].qualifier = compArgs[i]
    /\ \A i \in 1..Len(viewPool), j \in 1..Len(viewPool) :
         (i # j /\ viewArgs[i] = None /\ viewArgs[j] = None)
         => ViewKey(viewPool[i]) # ViewKey(viewPool[j])
    /\ \A i \in 1..Len(compPool), j \in 1..Len(compPool) :
         (i # j /\ compArgs[i] = None /\ compArgs[j] = None)
         => BodyKey(compPool[i]) # BodyKey(compPool[j])

\* Two views with the same term and family and two components with the same
\* document and type, all built without a qualifier.
C8_Witness ==
    /\ Len(viewPool) = 2 /\ viewArgs[1] = None /\ viewArgs[2] = None
    /\ viewPool[1].lookup_term = viewPool[2].lookup_term
    /\ viewPool[1].family = viewPool[2].family
    /\ Len(compPool) = 2 /\ compArgs[1] = None /\ compArgs[2] = None
    /\ compPool[1].doc_id = compPool[2].doc_id
    /\ compPool[1].component_type = compPool[2].component_type

\* C9: calling mutations() again on the same Revision returns a sequence
\* equal to the first one.
C9_RepeatableMutations ==
    \A r \in 1..Len(revCalls) :
        \A c1 \in 1..Len(revCalls[r]), c2 \in 1..Len(revCalls[r]) :
            revCalls[r][c1].outcome = revCalls[r][c2].outcome

====
